---- MODULE Spec2Model ----
(***************************************************************************)
(* A state-machine model of the land-slides map prototype                  *)
(* (src/app/components/MapView.tsx): the React state of MapView, its       *)
(* derived view-model (filtered markers, counts, heat points, fitted       *)
(* bounds), the event handlers of the map, the panel and the context menu, *)
(* and the local-storage load / persist effects.                           *)
(*                                                                         *)
(* Conventions.                                                            *)
(*  - A JavaScript string that the code inspects (trim, toLowerCase,       *)
(*    includes, charAt, slice) is a sequence of one-character strings.     *)
(*    Risk levels and sensor types, which the code only compares and uses  *)
(*    as keys, are TLA+ strings.  The one non-ASCII character of the seed  *)
(*    names, U+2014, is written "emdash".                                  *)
(*  - Coordinates are integers in units of 1e-4 degree, so 30.728 is       *)
(*    307280; battery voltages are in units of 0.1 V; heat weights and     *)
(*    opacities in units of 0.01.                                          *)
(*  - One step is one event handler together with the re-render it causes  *)
(*    and the FitToData effect of that render.  The persist effects of a   *)
(*    commit that changed a collection are the next step (FlushEffects):   *)
(*    React flushes them before it handles the next event.                 *)
(***************************************************************************)
EXTENDS Integers, Sequences, FiniteSets, TLC

(***************************************************************************)
(* JavaScript string primitives used by the code.                          *)
(***************************************************************************)
UpperLetters ==
  <<"A","B","C","D","E","F","G","H","I","J","K","L","M","N","O","P","Q","R","S","T","U","V","W","X","Y","Z">>

LowerLetters ==
  <<"a","b","c","d","e","f","g","h","i","j","k","l","m","n","o","p","q","r","s","t","u","v","w","x","y","z">>

\* The value window.prompt returns on Cancel, and localStorage.getItem on a
\* missing key: distinct from every string.
NULL == <<"<null>">>

toLowerCaseChar(c) ==
  IF \E i \in 1..26 : UpperLetters[i] = c
    THEN LowerLetters[CHOOSE i \in 1..26 : UpperLetters[i] = c]
    ELSE c

toUpperCaseChar(c) ==
  IF \E i \in 1..26 : LowerLetters[i] = c
    THEN UpperLetters[CHOOSE i \in 1..26 : LowerLetters[i] = c]
    ELSE c

toLowerCase(s) == [i \in 1..Len(s) |-> toLowerCaseChar(s[i])]

toUpperCase(s) == [i \in 1..Len(s) |-> toUpperCaseChar(s[i])]

IsWhiteSpace(c) == c \in {" ", "\t", "\n"}

\* String.prototype.trim
trim(s) ==
  LET keep == {i \in 1..Len(s) : ~IsWhiteSpace(s[i])}
  IN  IF keep = {} THEN <<>>
      ELSE SubSeq(s, CHOOSE i \in keep : \A j \in keep : i <= j,
                     CHOOSE i \in keep : \A j \in keep : i >= j)

\* String.prototype.includes
includes(s, q) ==
  \E i \in 0..(Len(s) - Len(q)) : SubSeq(s, i + 1, i + Len(q)) = q

\* s.charAt(0): the empty string when s is empty
charAt0(s) == IF Len(s) = 0 THEN <<>> ELSE <<s[1]>>

\* s.slice(1)
slice1(s) == IF Len(s) = 0 THEN <<>> ELSE SubSeq(s, 2, Len(s))

\* s.slice(0, n)
slice0(s, n) == IF Len(s) <= n THEN s ELSE SubSeq(s, 1, n)

\* JavaScript truthiness of a string-or-null value
Truthy(s) == s # NULL /\ s # <<>>

\* a || b on string-or-null values
OrElse(a, b) == IF Truthy(a) THEN a ELSE b

(***************************************************************************)
(* Types and seed data.                                                    *)
(***************************************************************************)
\* type Risk, in the order of the glossary: Info < Watch < Warning < Evacuate
Risk == <<"Info", "Watch", "Warning", "Evacuate">>

RiskSet == {Risk[i] : i \in 1..Len(Risk)}

\* The characters of a risk literal, for the comparisons of the risk prompts
RiskChars(r) ==
  CASE r = "Info"     -> <<"I","n","f","o">>
    [] r = "Watch"    -> <<"W","a","t","c","h">>
    [] r = "Warning"  -> <<"W","a","r","n","i","n","g">>
    [] r = "Evacuate" -> <<"E","v","a","c","u","a","t","e">>

SENSOR_TYPES == <<"tilt", "rain", "geophone">>

SensorTypeSet == {SENSOR_TYPES[i] : i \in 1..Len(SENSOR_TYPES)}

SeedNodes ==
  << [id |-> <<"U","1">>,
      name |-> <<"U","t","t","a","r","k","a","s","h","i"," ","emdash"," ","T","o","w","n"," ","N","o","r","t","h">>,
      lat |-> 307280, lng |-> 784430,
      types |-> <<"tilt","rain">>, risk |-> "Watch",
      last_seen |-> "2025-10-24 12:15", battery |-> 39],
     [id |-> <<"U","2">>,
      name |-> <<"G","a","n","g","o","r","i"," ","S","l","o","p","e">>,
      lat |-> 307150, lng |-> 784330,
      types |-> <<"tilt","geophone">>, risk |-> "Warning",
      last_seen |-> "2025-10-24 12:14", battery |-> 37],
     [id |-> <<"U","3">>,
      name |-> <<"N","e","t","a","l","a"," ","R","i","d","g","e">>,
      lat |-> 307890, lng |-> 784470,
      types |-> <<"tilt">>, risk |-> "Info",
      last_seen |-> "2025-10-24 12:13", battery |-> 38],
     [id |-> <<"R","G","1">>,
      name |-> <<"R","a","i","n"," ","G","a","u","g","e"," ","emdash"," ","B","h","a","t","w","a","r","i">>,
      lat |-> 307910, lng |-> 785610,
      types |-> <<"rain">>, risk |-> "Info",
      last_seen |-> "2025-10-24 12:15", battery |-> 38],
     [id |-> <<"G","1">>,
      name |-> <<"G","e","o","p","h","o","n","e"," ","emdash"," ","M","a","n","e","r","i">>,
      lat |-> 307500, lng |-> 784490,
      types |-> <<"geophone">>, risk |-> "Watch",
      last_seen |-> "2025-10-24 12:10", battery |-> 36] >>

SeedAreas ==
  << [id |-> <<"S","e","c","t","o","r","-","1">>,
      name |-> <<"U","t","t","a","r","k","a","s","h","i"," ","R","i","d","g","e">>,
      risk |-> "Warning",
      coords |-> << [lat |-> 307350, lng |-> 784300],
                    [lat |-> 307450, lng |-> 784550],
                    [lat |-> 307190, lng |-> 784650],
                    [lat |-> 307130, lng |-> 784400] >>],
     [id |-> <<"S","e","c","t","o","r","-","2">>,
      name |-> <<"B","h","a","t","w","a","r","i"," ","H","i","l","l","s">>,
      risk |-> "Evacuate",
      coords |-> << [lat |-> 307960, lng |-> 785450],
                    [lat |-> 308060, lng |-> 785750],
                    [lat |-> 307850, lng |-> 785830],
                    [lat |-> 307790, lng |-> 785520] >>] >>

\* A variant of riskWeight with the weights of Watch and Warning exchanged
riskWeightSwapped(r) ==
  CASE r = "Info"     -> 20
    [] r = "Watch"    -> 75
    [] r = "Warning"  -> 50
    [] r = "Evacuate" -> 100

\* const riskWeight, in units of 0.01
riskWeight(r) ==
  CASE r = "Info"     -> 20
    [] r = "Watch"    -> 50
    [] r = "Warning"  -> 75
    [] r = "Evacuate" -> 100

(***************************************************************************)
(* State.                                                                  *)
(***************************************************************************)
VARIABLES
  NODES, AREAS,                \* the module-level seed arrays
  page,                        \* the Page component above MapView
  riskFilter, typeFilter, query,
  clusterOn, showPolygons, showHeatmap, heatRadius, heatOpacity,
  basemap, hillOpacity,
  notes, addNoteMode,
  drawMode, drawing, newAreaName, newAreaRisk,
  userAreas, userNodes, flagIds,
  menu, fitKey,
  \* derived view-model of the last render
  filteredNodes, filteredUserNodes, countsByRisk, heatPoints, fitted,
  heatLayer,                   \* the HeatLayer component and its layers on the map
  \* browser-local storage and the life cycle of the component: the stored
  \* texts, whether setItem throws, the keys whose last write threw, the
  \* position in the commit cycle, the persist effects left to run, and the
  \* texts the load effect of the current mount read
  localStorage, quotaFull, writeThrew, phase, pending, storedAtMount

seedVars    == <<NODES, AREAS>>
filterVars  == <<riskFilter, typeFilter, query>>
overlayVars == <<clusterOn, showPolygons, showHeatmap, heatRadius, heatOpacity,
                 basemap, hillOpacity>>
drawVars    == <<drawMode, drawing, newAreaName, newAreaRisk>>
dataVars    == <<notes, userAreas, userNodes, flagIds>>
derivedVars == <<filteredNodes, filteredUserNodes, countsByRisk, heatPoints, fitted,
                 heatLayer>>
storeVars   == <<localStorage, quotaFull, writeThrew, phase, pending, storedAtMount>>

\* everything but the state of Page
mapVars == <<seedVars, filterVars, overlayVars, drawVars, dataVars, addNoteMode,
             menu, fitKey, derivedVars, storeVars>>

vars == <<seedVars, page, filterVars, overlayVars, drawVars, dataVars, addNoteMode,
          menu, fitKey, derivedVars, storeVars>>

(***************************************************************************)
(* Bounds of the model.                                                    *)
(***************************************************************************)
\* notes, user nodes and user areas alive at one time, all together
MaxItems == 2

\* vertices of the drawing in progress
MaxDraw == 3

\* Settings away from their initial values in the specification of Reset
MaxChanged == 4

(***************************************************************************)
(* The derived view-model (useMemo values and the FitToData effect).       *)
(***************************************************************************)
\* A variant of NodeShown that compares the query as typed
NodeShownRawQuery(n, rf, tf, qy) ==
  LET riskOk == rf[n.risk]
      typeOk == \E i \in 1..Len(n.types) : tf[n.types[i]]
      qOk    == \/ qy = <<>>
                \/ includes(toLowerCase(n.id), qy)
                \/ includes(toLowerCase(n.name), qy)
  IN  riskOk /\ typeOk /\ qOk

\* The predicate of NODES.filter / userNodes.filter
NodeShown(n, rf, tf, qy) ==
  LET q      == toLowerCase(trim(qy))
      riskOk == rf[n.risk]
      typeOk == \E i \in 1..Len(n.types) : tf[n.types[i]]
      qOk    == \/ q = <<>>
                \/ includes(toLowerCase(n.id), q)
                \/ includes(toLowerCase(n.name), q)
  IN  riskOk /\ typeOk /\ qOk

\* filteredNodes / filteredUserNodes
FilterNodes(list, rf, tf, qy) ==
  LET Test(n) == NodeShown(n, rf, tf, qy)
  IN  SelectSeq(list, Test)

ZeroCounts == [r \in RiskSet |-> 0]

RECURSIVE ReduceCounts(_, _)
\* all.reduce((acc, n) => ({...acc, [n.risk]: acc[n.risk] + 1}), acc)
ReduceCounts(all, acc) ==
  IF all = <<>> THEN acc
  ELSE ReduceCounts(Tail(all),
                    [acc EXCEPT ![Head(all).risk] = acc[Head(all).risk] + 1])

\* A variant of CountsOf that counts the seed nodes only
CountsOfSeed(fn, fun) == ReduceCounts(fn, ZeroCounts)

\* countsByRisk
CountsOf(fn, fun) == ReduceCounts(fn \o fun, ZeroCounts)

\* heatPoints
HeatPointsOf(fn, fun) ==
  LET all == fn \o fun
  IN  [i \in 1..Len(all) |-> <<all[i].lat, all[i].lng, riskWeight(all[i].risk)>>]

\* L.latLngBounds([]): no corner yet
EmptyBounds == [valid |-> FALSE, south |-> 0, west |-> 0, north |-> 0, east |-> 0]

\* bounds.extend([lat, lng])
extend(b, lat, lng) ==
  IF ~b.valid
    THEN [valid |-> TRUE, south |-> lat, west |-> lng, north |-> lat, east |-> lng]
    ELSE [valid |-> TRUE,
          south |-> IF lat < b.south THEN lat ELSE b.south,
          west  |-> IF lng < b.west  THEN lng ELSE b.west,
          north |-> IF lat > b.north THEN lat ELSE b.north,
          east  |-> IF lng > b.east  THEN lng ELSE b.east]

RECURSIVE ExtendAll(_, _)
\* seq.forEach((p) => bounds.extend([p.lat, p.lng]))
ExtendAll(b, seq) ==
  IF seq = <<>> THEN b
  ELSE ExtendAll(extend(b, Head(seq).lat, Head(seq).lng), Tail(seq))

RECURSIVE ExtendAreas(_, _)
\* areas.forEach((a) => a.coords.forEach(...))
ExtendAreas(b, areas) ==
  IF areas = <<>> THEN b
  ELSE ExtendAreas(ExtendAll(b, Head(areas).coords), Tail(areas))

\* bounds.pad(0.2): each side moves out by a fifth of the extent.  Exact on
\* the model's coordinates, which are multiples of 10.
pad(b) ==
  LET h == (b.north - b.south) \div 5
      w == (b.east - b.west) \div 5
  IN  [valid |-> TRUE, south |-> b.south - h, west |-> b.west - w,
       north |-> b.north + h, east |-> b.east + w]

\* A variant of FitNodes without the fallback to all nodes
FitNodesDisplayedOnly(fn, fun, seed, un) == fn \o fun

\* The nodes prop MapView passes to FitToData
FitNodes(fn, fun, seed, un) ==
  IF Len(fn \o fun) # 0 THEN fn \o fun ELSE seed \o un

\* The areas prop (allAreas)
AllAreas(seed, ua) == seed \o ua

\* The bounds the FitToData effect computes
FitBounds(nodes, areas) == ExtendAreas(ExtendAll(EmptyBounds, nodes), areas)

\* The effect of FitToData: what map.fitBounds last received, with the
\* bounds it was padded from; prev when the bounds are not valid.  panned
\* tells whether the user has moved the map since: fitBounds puts the
\* viewport back on view.
FitToData(nodes, areas, prev) ==
  LET bounds == FitBounds(nodes, areas)
  IN  IF bounds.valid
        THEN [bounds |-> bounds, view |-> pad(bounds), panned |-> FALSE]
        ELSE prev

NoFit == [bounds |-> EmptyBounds, view |-> EmptyBounds, panned |-> FALSE]

(***************************************************************************)
(* HeatLayer.  mounted: the component is in the tree; ready: its state;    *)
(* loading: its import of the plugin has not settled; own: its layer       *)
(* effect holds a layer to remove; stale: imports of unmounted instances   *)
(* (cancelled = true) have not settled; layers: heat layers on the map.    *)
(***************************************************************************)
HeatUnmounted(stale, layers) ==
  [mounted |-> FALSE, ready |-> FALSE, loading |-> FALSE, own |-> FALSE,
   stale |-> stale, layers |-> layers]

\* A variant of LayerCleanup that leaves the layer on the map
LayerCleanupKeeping(h) == [h EXCEPT !.own = FALSE]

\* return () => { map.removeLayer(layer); }
LayerCleanup(h) ==
  IF h.own THEN [h EXCEPT !.own = FALSE, !.layers = @ - 1] ELSE h

\* The layer effect: if (!ready) return; ... layer.addTo(map)
LayerEffect(h) ==
  IF h.ready THEN [h EXCEPT !.own = TRUE, !.layers = @ + 1] ELSE h

\* The first commit of a HeatLayer: the import starts, the layer effect
\* finds ready false
HeatMount(h) ==
  LayerEffect([h EXCEPT !.mounted = TRUE, !.ready = FALSE, !.loading = TRUE, !.own = FALSE])

\* The cleanups of an unmounting HeatLayer: the layer is removed and
\* cancelled is set, which makes a pending import a stale one
HeatUnmount(h) ==
  LET c == LayerCleanup(h)
  IN  HeatUnmounted(c.stale \/ c.loading, c.layers)

\* {showHeatmap && heatPoints.length > 0 && <HeatLayer .../>} in a render of
\* MapView; changed tells whether points, radius or opacity changed
HeatRender(h, shown, changed) ==
  IF shown
    THEN IF h.mounted
           THEN IF changed THEN LayerEffect(LayerCleanup(h)) ELSE h
           ELSE HeatMount(h)
    ELSE IF h.mounted THEN HeatUnmount(h) ELSE h

\* .then(() => { if (!cancelled) setReady(true); }) and the re-render of
\* HeatLayer that setReady schedules
ImportSettled(h, cancelled) ==
  IF cancelled
    THEN h
    ELSE LayerEffect(LayerCleanup([h EXCEPT !.ready = TRUE, !.loading = FALSE]))

\* A re-render of MapView followed by the FitToData effect, whose nodes
\* dependency is a new array on every render.
Render ==
  /\ filteredNodes' = FilterNodes(NODES', riskFilter', typeFilter', query')
  /\ filteredUserNodes' = FilterNodes(userNodes', riskFilter', typeFilter', query')
  /\ countsByRisk' = CountsOf(filteredNodes', filteredUserNodes')
  /\ heatPoints' = HeatPointsOf(filteredNodes', filteredUserNodes')
  /\ fitted' = FitToData(FitNodes(filteredNodes', filteredUserNodes', NODES', userNodes'),
                         AllAreas(AREAS', userAreas'), fitted)
  /\ heatLayer' = HeatRender(heatLayer, showHeatmap' /\ Len(heatPoints') > 0,
                             heatPoints' # heatPoints \/ heatRadius' # heatRadius
                               \/ heatOpacity' # heatOpacity)

(***************************************************************************)
(* Local storage.                                                          *)
(***************************************************************************)
StorageKeys == <<"ls_user_areas", "ls_user_nodes", "ls_notes", "ls_flag_ids">>

StorageKeySet == {StorageKeys[i] : i \in 1..Len(StorageKeys)}

\* getItem of a key that was never set
Absent == [kind |-> "absent", value |-> <<>>]

\* a stored text that JSON.parse rejects
Malformed == [kind |-> "malformed", value |-> <<>>]

\* JSON.stringify(v): the stored text, which JSON.parse turns back into a
\* structurally equal array (the collections hold finite numbers, strings,
\* arrays and plain objects only)
stringify(v) == [kind |-> "json", value |-> v]

\* if (a): a stored text is truthy unless the key is absent
ItemTruthy(item) == item.kind # "absent"

\* JSON.parse(text) throws
ParseThrows(item) == item.kind = "malformed"

\* JSON.parse(text)
parse(item) == item.value

\* The load effect reads the keys in order inside one try block: the keys
\* whose setter is called are the truthy ones before the first that throws.
LoadedKeys(store) ==
  {StorageKeys[i] : i \in
     {i \in 1..Len(StorageKeys) :
        /\ ItemTruthy(store[StorageKeys[i]])
        /\ \A j \in 1..i : ~(ItemTruthy(store[StorageKeys[j]]) /\ ParseThrows(store[StorageKeys[j]]))}}

\* The collection a key persists
CollectionOf(k, ua, un, nt, fl) ==
  CASE k = "ls_user_areas" -> ua
    [] k = "ls_user_nodes" -> un
    [] k = "ls_notes"      -> nt
    [] k = "ls_flag_ids"   -> fl

\* A variant of PersistEffects that stores the user nodes and the user areas
\* under each other's key
PersistEffectsCrossed(touched) ==
  /\ localStorage' =
       [k \in StorageKeySet |->
          IF k \in touched /\ ~quotaFull
            THEN stringify(CollectionOf(k, userNodes, userAreas, notes, flagIds))
            ELSE localStorage[k]]
  /\ writeThrew' = IF quotaFull THEN writeThrew \cup touched ELSE writeThrew \ touched

\* The persist effects of the collections in touched (those whose setter ran
\* in the commit): setItem inside try/catch; it throws while the quota is
\* exhausted, and then leaves the stored text as it was.
PersistEffects(touched) ==
  /\ localStorage' =
       [k \in StorageKeySet |->
          IF k \in touched /\ ~quotaFull
            THEN stringify(CollectionOf(k, userAreas, userNodes, notes, flagIds))
            ELSE localStorage[k]]
  /\ writeThrew' = IF quotaFull THEN writeThrew \cup touched ELSE writeThrew \ touched

\* The commit that follows a handler: the re-render, and the persist effects
\* of the collections in touched left to run.  What the load effect read
\* (storedAtMount) is kept until the first event after the mount only.
Commit(touched) ==
  /\ Render
  /\ pending' = touched
  /\ phase' = IF touched = {} THEN phase ELSE "effects"
  /\ storedAtMount' = [k \in StorageKeySet |-> Absent]
  /\ UNCHANGED <<localStorage, quotaFull, writeThrew>>

(***************************************************************************)
(* Initial state: MapView has rendered once, its effects have not run yet, *)
(* and the browser's storage holds nothing of the application.             *)
(***************************************************************************)
AllRisksOn == [r \in RiskSet |-> TRUE]

AllTypesOn == [t \in SensorTypeSet |-> TRUE]

MenuNull == [open |-> FALSE, lat |-> 0, lng |-> 0, type |-> "none", id |-> <<>>]

\* safeUUID(): the n-th identifier of the pool.  Identifiers are seven
\* characters long and differ in the last one; the (2k-1)-th and the 2k-th
\* have their first six characters in common.
HexDigits == <<"1","2","3","4","5","6","7","8","9","a","b","c","d","e","f">>

Uuid(n) == <<"e", "7", "0", "0", "0", HexDigits[(n + 1) \div 2], HexDigits[n]>>

\* The useState initialisers of MapView and the useMemo values of the first
\* render; also the state of a fresh mount after an unmount.
FirstRender ==
  /\ riskFilter = AllRisksOn
  /\ typeFilter = AllTypesOn
  /\ query = <<>>
  /\ clusterOn = TRUE
  /\ showPolygons = TRUE
  /\ showHeatmap = FALSE
  /\ heatRadius = 30
  /\ heatOpacity = 60
  /\ basemap = "osm"
  /\ hillOpacity = 60
  /\ notes = <<>>
  /\ addNoteMode = FALSE
  /\ drawMode = FALSE
  /\ drawing = <<>>
  /\ newAreaName = <<>>
  /\ newAreaRisk = "Watch"
  /\ userAreas = <<>>
  /\ userNodes = <<>>
  /\ flagIds = <<>>
  /\ menu = MenuNull
  /\ fitKey = Uuid(1)
  /\ filteredNodes = FilterNodes(NODES, AllRisksOn, AllTypesOn, <<>>)
  /\ filteredUserNodes = <<>>
  /\ countsByRisk = CountsOf(FilterNodes(NODES, AllRisksOn, AllTypesOn, <<>>), <<>>)
  /\ heatPoints = HeatPointsOf(FilterNodes(NODES, AllRisksOn, AllTypesOn, <<>>), <<>>)
  /\ fitted = NoFit
  /\ heatLayer = HeatUnmounted(FALSE, 0)
  /\ phase = "mounting"
  /\ pending = {}

\* Page once the import of MapView has resolved: Comp is set, err is null
PageShowingMap == [Comp |-> TRUE, err |-> FALSE, alive |-> TRUE, import |-> "settled"]

Init ==
  /\ NODES = SeedNodes
  /\ AREAS = SeedAreas
  /\ page = PageShowingMap
  /\ localStorage = [k \in StorageKeySet |-> Absent]
  /\ quotaFull = FALSE
  /\ writeThrew = {}
  /\ storedAtMount = [k \in StorageKeySet |-> Absent]
  /\ FirstRender

(***************************************************************************)
(* Identifiers.                                                            *)
(***************************************************************************)
\* `UA-${safeUUID().slice(0, 6)}`
AreaId(uuid) == <<"U","A","-">> \o slice0(uuid, 6)

IdsOf(seq) == {seq[i].id : i \in 1..Len(seq)}

Elems(seq) == {seq[i] : i \in 1..Len(seq)}

\* Identifiers the session still holds somewhere: in a collection, in the
\* open menu or in a stored text.
IdsHeld ==
  LET Stored(k) == IF localStorage[k].kind = "json" THEN localStorage[k].value ELSE <<>>
  IN  IdsOf(notes) \cup IdsOf(userNodes) \cup IdsOf(userAreas) \cup Elems(flagIds)
      \cup {menu.id}
      \cup IdsOf(Stored("ls_notes")) \cup IdsOf(Stored("ls_user_nodes"))
      \cup IdsOf(Stored("ls_user_areas")) \cup Elems(Stored("ls_flag_ids"))

UnusedUuids == {n \in 1..Len(HexDigits) : Uuid(n) \notin IdsHeld /\ AreaId(Uuid(n)) \notin IdsHeld}

\* safeUUID() returns an identifier the session has not seen; the model
\* takes the first of the pool that is held nowhere.
safeUUID == Uuid(CHOOSE n \in UnusedUuids : \A m \in UnusedUuids : n <= m)

\* The model creates an item only while fewer than MaxItems are alive.
ItemCount == Len(notes) + Len(userNodes) + Len(userAreas)

CanCreate == ItemCount < MaxItems /\ Len(flagIds) < MaxItems /\ UnusedUuids # {}

(***************************************************************************)
(* Life cycle: mount effects, the re-render they schedule, unmount, and    *)
(* the storage quota.                                                      *)
(***************************************************************************)
Ready == phase = "ready"

\* The effects of the first commit, in order: FitToData, the load effect
\* (whose setters only schedule a re-render), then the four persist effects,
\* which see the collections of the first render.
MountEffects ==
  /\ phase = "mounting"
  /\ LET loaded == LoadedKeys(localStorage)
         Load(k, cur) == IF k \in loaded THEN parse(localStorage[k]) ELSE cur
     IN  /\ userAreas' = Load("ls_user_areas", userAreas)
         /\ userNodes' = Load("ls_user_nodes", userNodes)
         /\ notes' = Load("ls_notes", notes)
         /\ flagIds' = Load("ls_flag_ids", flagIds)
         /\ phase' = IF loaded = {} THEN "ready" ELSE "rerender"
  /\ storedAtMount' = localStorage
  /\ localStorage' =
       [k \in StorageKeySet |->
          IF quotaFull THEN localStorage[k]
          ELSE stringify(CollectionOf(k, userAreas, userNodes, notes, flagIds))]
  /\ writeThrew' = IF quotaFull THEN StorageKeySet ELSE {}
  /\ fitted' = FitToData(FitNodes(filteredNodes, filteredUserNodes, NODES, userNodes),
                         AllAreas(AREAS, userAreas), fitted)
  /\ UNCHANGED <<seedVars, page, filterVars, overlayVars, drawVars, addNoteMode, menu, fitKey,
                 filteredNodes, filteredUserNodes, countsByRisk, heatPoints, heatLayer,
                 quotaFull, pending>>

\* A variant of RerenderAfterLoad that leaves no persist effect to run
RerenderWithoutPersist ==
  /\ phase = "rerender"
  /\ UNCHANGED <<seedVars, page, filterVars, overlayVars, drawVars, dataVars, addNoteMode,
                 menu, fitKey, localStorage, quotaFull, writeThrew, storedAtMount>>
  /\ Render
  /\ pending' = {}
  /\ phase' = "loaded"

\* The re-render the load effect scheduled; the persist effects of the
\* collections it set are left to run (phase "loaded").
RerenderAfterLoad ==
  /\ phase = "rerender"
  /\ UNCHANGED <<seedVars, page, filterVars, overlayVars, drawVars, dataVars, addNoteMode,
                 menu, fitKey, localStorage, quotaFull, writeThrew, storedAtMount>>
  /\ Render
  /\ pending' = LoadedKeys(storedAtMount)
  /\ phase' = "loaded"

\* The persist effects a commit left to run
FlushEffects ==
  /\ phase \in {"effects", "loaded"}
  /\ PersistEffects(pending)
  /\ pending' = {}
  /\ phase' = "ready"
  /\ UNCHANGED <<seedVars, page, filterVars, overlayVars, drawVars, dataVars, addNoteMode,
                 menu, fitKey, derivedVars, quotaFull, storedAtMount>>

\* MapView unmounts and mounts again (the page is left and opened again):
\* React state starts over as in FirstRender, the browser's storage stays.
Remount ==
  /\ Ready
  /\ UNCHANGED <<seedVars, page, localStorage, quotaFull, writeThrew>>
  /\ storedAtMount' = [k \in StorageKeySet |-> Absent]
  /\ riskFilter' = AllRisksOn
  /\ typeFilter' = AllTypesOn
  /\ query' = <<>>
  /\ clusterOn' = TRUE
  /\ showPolygons' = TRUE
  /\ showHeatmap' = FALSE
  /\ heatRadius' = 30
  /\ heatOpacity' = 60
  /\ basemap' = "osm"
  /\ hillOpacity' = 60
  /\ notes' = <<>>
  /\ addNoteMode' = FALSE
  /\ drawMode' = FALSE
  /\ drawing' = <<>>
  /\ newAreaName' = <<>>
  /\ newAreaRisk' = "Watch"
  /\ userAreas' = <<>>
  /\ userNodes' = <<>>
  /\ flagIds' = <<>>
  /\ menu' = MenuNull
  /\ fitKey' = Uuid(1)
  /\ filteredNodes' = FilterNodes(NODES, AllRisksOn, AllTypesOn, <<>>)
  /\ filteredUserNodes' = <<>>
  /\ countsByRisk' = CountsOf(FilterNodes(NODES, AllRisksOn, AllTypesOn, <<>>), <<>>)
  /\ heatPoints' = HeatPointsOf(FilterNodes(NODES, AllRisksOn, AllTypesOn, <<>>), <<>>)
  /\ fitted' = NoFit
  /\ heatLayer' = HeatUnmount(heatLayer)
  /\ phase' = "mounting"
  /\ pending' = {}

\* The import of the heat plugin started by the mounted HeatLayer resolves
PluginLoaded ==
  /\ heatLayer.mounted
  /\ heatLayer.loading
  /\ heatLayer' = ImportSettled(heatLayer, FALSE)
  /\ UNCHANGED <<seedVars, page, filterVars, overlayVars, drawVars, dataVars, addNoteMode,
                 menu, fitKey, filteredNodes, filteredUserNodes, countsByRisk, heatPoints,
                 fitted, storeVars>>

\* An import started by a HeatLayer that has unmounted since resolves;
\* others of the kind may or may not be left
StalePluginLoaded ==
  /\ heatLayer.stale
  /\ \E left \in BOOLEAN : heatLayer' = [ImportSettled(heatLayer, TRUE) EXCEPT !.stale = left]
  /\ UNCHANGED <<seedVars, page, filterVars, overlayVars, drawVars, dataVars, addNoteMode,
                 menu, fitKey, filteredNodes, filteredUserNodes, countsByRisk, heatPoints,
                 fitted, storeVars>>

(***************************************************************************)
(* Page: the dynamic import of MapView and the three views.                *)
(***************************************************************************)
\* useState(null) twice, alive = true, the import started by the effect
PageInitial == [Comp |-> FALSE, err |-> FALSE, alive |-> TRUE, import |-> "pending"]

\* if (err) return ...; if (!Comp) return ...; return <M />
View(p) == IF p.err THEN "error" ELSE IF ~p.Comp THEN "loading" ELSE "map"

\* A variant of ImportResolved that does not test alive
ImportResolvedUnguarded(p) == [p EXCEPT !.Comp = TRUE]

\* .then((m) => { if (alive) setComp(() => m.default); })
ImportResolved(p) == IF p.alive THEN [p EXCEPT !.Comp = TRUE] ELSE p

\* .catch((e) => { console.error(...); if (alive) setErr(e); })
ImportRejected(p) == IF p.alive THEN [p EXCEPT !.err = TRUE] ELSE p

ImportResolves ==
  /\ page.import = "pending"
  /\ page' = [ImportResolved(page) EXCEPT !.import = "settled"]
  /\ UNCHANGED mapVars

ImportRejects ==
  /\ page.import = "pending"
  /\ page' = [ImportRejected(page) EXCEPT !.import = "settled"]
  /\ UNCHANGED mapVars

\* The cleanup of the effect: alive = false
PageUnmounts ==
  /\ page.alive
  /\ page' = [page EXCEPT !.alive = FALSE]
  /\ UNCHANGED mapVars

\* A step of MapView, which Page renders in the map view only
InMap(A) == View(page) = "map" /\ page.alive /\ A

\* Something other than MapView (another script of the origin, the user)
\* leaves under key k a text that JSON.parse rejects, while no key holds one
StoredTextCorrupted(k) ==
  /\ Ready
  /\ \A j \in StorageKeySet : ~ParseThrows(localStorage[j])
  /\ localStorage' = [localStorage EXCEPT ![k] = Malformed]
  /\ UNCHANGED <<seedVars, page, filterVars, overlayVars, drawVars, dataVars, addNoteMode,
                 menu, fitKey, derivedVars, quotaFull, writeThrew, phase, pending,
                 storedAtMount>>

\* The origin's storage quota becomes exhausted: setItem throws from now on
\* (nothing in the application removes a key or shrinks a stored text).
QuotaExhausted ==
  /\ ~quotaFull
  /\ quotaFull' = TRUE
  /\ UNCHANGED <<seedVars, page, filterVars, overlayVars, drawVars, dataVars, addNoteMode,
                 menu, fitKey, derivedVars, localStorage, writeThrew, phase, pending,
                 storedAtMount>>

(***************************************************************************)
(* Handlers of the map: clicks, context menus, popups.                     *)
(***************************************************************************)
\* Date.now(): the clock is not modelled
Now == 0

NewNote(lat, lng, text) ==
  [id |-> safeUUID, lat |-> lat, lng |-> lng, text |-> trim(text), ts |-> Now]

\* A variant of NoteAccepted that takes any text that is not empty
NoteAcceptedUntrimmed(text) == Truthy(text)

\* if (text && text.trim())
NoteAccepted(text) == Truthy(text) /\ trim(text) # <<>>

\* A variant of MapClick that tests addNoteMode before drawMode
MapClickNoteFirst(pt, text) ==
  /\ Ready
  /\ menu' = MenuNull
  /\ UNCHANGED <<seedVars, page, filterVars, overlayVars, drawMode, newAreaName, newAreaRisk,
                 userAreas, userNodes, flagIds, addNoteMode, fitKey>>
  /\ IF addNoteMode /\ NoteAccepted(text)
       THEN /\ CanCreate
            /\ notes' = Append(notes, NewNote(pt.lat, pt.lng, text))
            /\ UNCHANGED drawing
            /\ Commit({"ls_notes"})
       ELSE IF drawMode
         THEN /\ Len(drawing) < MaxDraw
              /\ drawing' = Append(drawing, <<pt.lat, pt.lng>>)
              /\ UNCHANGED notes
              /\ Commit({})
         ELSE /\ UNCHANGED <<notes, drawing>>
              /\ Commit({})

\* MapClicks.click with the props of MapView; text is what window.prompt
\* returns if the add-note flow runs.
MapClick(pt, text) ==
  /\ Ready
  /\ menu' = MenuNull
  /\ UNCHANGED <<seedVars, page, filterVars, overlayVars, drawMode, newAreaName, newAreaRisk,
                 userAreas, userNodes, flagIds, addNoteMode, fitKey>>
  /\ IF drawMode
       THEN /\ Len(drawing) < MaxDraw
            /\ drawing' = Append(drawing, <<pt.lat, pt.lng>>)
            /\ UNCHANGED notes
            /\ Commit({})
       ELSE IF addNoteMode /\ NoteAccepted(text)
         THEN /\ CanCreate
              /\ notes' = Append(notes, NewNote(pt.lat, pt.lng, text))
              /\ UNCHANGED drawing
              /\ Commit({"ls_notes"})
         ELSE /\ UNCHANGED <<notes, drawing>>
              /\ Commit({})

OpenMenu(lat, lng, type, id) ==
  /\ menu' = [open |-> TRUE, lat |-> lat, lng |-> lng, type |-> type, id |-> id]
  /\ UNCHANGED <<seedVars, page, filterVars, overlayVars, drawVars, dataVars, addNoteMode, fitKey>>
  /\ Commit({})

\* MapClicks.contextmenu: a right click on the map itself
MapContextMenu(pt) ==
  /\ Ready
  /\ OpenMenu(pt.lat, pt.lng, "none", <<>>)

\* The markers rendered, clustered or not
Displayed == filteredNodes \o filteredUserNodes

\* A variant of IsUserNode that looks the node up among all nodes
IsKnownNode(n) ==
  \E j \in 1..Len(NODES \o userNodes) : (NODES \o userNodes)[j].id = n.id

\* userNodes.find((u) => u.id === n.id), as a condition
IsUserNode(n) == \E j \in 1..Len(userNodes) : userNodes[j].id = n.id

\* Marker contextmenu handler of the i-th displayed node
MarkerContextMenu(i) ==
  /\ Ready
  /\ i \in 1..Len(Displayed)
  /\ LET n == Displayed[i]
     IN  IF IsUserNode(n)
           THEN OpenMenu(n.lat, n.lng, "checkpoint", n.id)
           ELSE OpenMenu(n.lat, n.lng, "none", <<>>)

\* prev.filter((u) => u.id !== id)
WithoutId(seq, id) ==
  LET Test(x) == x.id # id
  IN  SelectSeq(seq, Test)

\* The Delete checkpoint button in the popup of the i-th displayed node,
\* rendered for user nodes only
PopupDeleteCheckpoint(i) ==
  /\ Ready
  /\ i \in 1..Len(Displayed)
  /\ IsUserNode(Displayed[i])
  /\ userNodes' = WithoutId(userNodes, Displayed[i].id)
  /\ UNCHANGED <<seedVars, page, filterVars, overlayVars, drawVars, notes, userAreas, flagIds,
                 addNoteMode, menu, fitKey>>
  /\ Commit({"ls_user_nodes"})

\* A right click at pt on the i-th polygon.  Only user polygons carry a
\* handler; Leaflet then delivers the event to the map as well when the
\* layer lets mouse events bubble, and the map's handler, which runs last,
\* sets a menu without target.
PolygonContextMenu(i, pt, bubbles) ==
  /\ Ready
  /\ showPolygons
  /\ i \in 1..Len(AllAreas(AREAS, userAreas))
  /\ LET a == AllAreas(AREAS, userAreas)[i]
     IN  IF (\E j \in 1..Len(userAreas) : userAreas[j].id = a.id) /\ ~bubbles
           THEN OpenMenu(pt.lat, pt.lng, "area", a.id)
           ELSE OpenMenu(pt.lat, pt.lng, "none", <<>>)

\* Marker contextmenu handler of the j-th note
NoteContextMenu(j) ==
  /\ Ready
  /\ j \in 1..Len(notes)
  /\ OpenMenu(notes[j].lat, notes[j].lng, "note", notes[j].id)

(***************************************************************************)
(* Handlers of the right-hand panel.                                       *)
(***************************************************************************)
\* The user drags or zooms the map: Leaflet moves the viewport, no handler
\* of MapView runs
UserPans ==
  /\ Ready
  /\ ~fitted.panned
  /\ fitted' = [fitted EXCEPT !.panned = TRUE]
  /\ UNCHANGED <<seedVars, page, filterVars, overlayVars, drawVars, dataVars, addNoteMode,
                 menu, fitKey, filteredNodes, filteredUserNodes, countsByRisk, heatPoints,
                 heatLayer, storeVars>>

\* Fit to data: setFitKey(safeUUID()), a key other than the current one
FitToDataButton(n) ==
  /\ Ready
  /\ Uuid(n) # fitKey
  /\ fitKey' = Uuid(n)
  /\ UNCHANGED <<seedVars, page, filterVars, overlayVars, drawVars, dataVars, addNoteMode, menu>>
  /\ Commit({})

\* The search box
SetQuery(q) ==
  /\ Ready
  /\ query' = q
  /\ UNCHANGED <<seedVars, page, riskFilter, typeFilter, overlayVars, drawVars, dataVars,
                 addNoteMode, menu, fitKey>>
  /\ Commit({})

\* A Node risk checkbox
ToggleRisk(r) ==
  /\ Ready
  /\ riskFilter' = [riskFilter EXCEPT ![r] = ~riskFilter[r]]
  /\ UNCHANGED <<seedVars, page, typeFilter, query, overlayVars, drawVars, dataVars,
                 addNoteMode, menu, fitKey>>
  /\ Commit({})

\* A Sensor type checkbox
ToggleType(t) ==
  /\ Ready
  /\ typeFilter' = [typeFilter EXCEPT ![t] = ~typeFilter[t]]
  /\ UNCHANGED <<seedVars, page, riskFilter, query, overlayVars, drawVars, dataVars,
                 addNoteMode, menu, fitKey>>
  /\ Commit({})

\* Marker clustering
ToggleCluster ==
  /\ Ready
  /\ clusterOn' = ~clusterOn
  /\ UNCHANGED <<seedVars, page, filterVars, showPolygons, showHeatmap, heatRadius, heatOpacity,
                 basemap, hillOpacity, drawVars, dataVars, addNoteMode, menu, fitKey>>
  /\ Commit({})

\* A variant of resetFilters that leaves the sensor types as they are
resetFiltersKeepingTypes ==
  /\ Ready
  /\ query' = <<>>
  /\ riskFilter' = AllRisksOn
  /\ showPolygons' = TRUE
  /\ showHeatmap' = FALSE
  /\ heatRadius' = 30
  /\ heatOpacity' = 60
  /\ UNCHANGED <<seedVars, page, typeFilter, clusterOn, basemap, hillOpacity, drawVars, dataVars,
                 addNoteMode, menu, fitKey>>
  /\ Commit({})

\* Reset
resetFilters ==
  /\ Ready
  /\ query' = <<>>
  /\ riskFilter' = AllRisksOn
  /\ typeFilter' = AllTypesOn
  /\ showPolygons' = TRUE
  /\ showHeatmap' = FALSE
  /\ heatRadius' = 30
  /\ heatOpacity' = 60
  /\ UNCHANGED <<seedVars, page, clusterOn, basemap, hillOpacity, drawVars, dataVars,
                 addNoteMode, menu, fitKey>>
  /\ Commit({})

\* Show polygons
ToggleShowPolygons ==
  /\ Ready
  /\ showPolygons' = ~showPolygons
  /\ UNCHANGED <<seedVars, page, filterVars, clusterOn, showHeatmap, heatRadius, heatOpacity,
                 basemap, hillOpacity, drawVars, dataVars, addNoteMode, menu, fitKey>>
  /\ Commit({})

\* Show heatmap
ToggleShowHeatmap ==
  /\ Ready
  /\ showHeatmap' = ~showHeatmap
  /\ UNCHANGED <<seedVars, page, filterVars, clusterOn, showPolygons, heatRadius, heatOpacity,
                 basemap, hillOpacity, drawVars, dataVars, addNoteMode, menu, fitKey>>
  /\ Commit({})

\* The Radius slider, rendered while the heatmap is shown
SetHeatRadius(v) ==
  /\ Ready
  /\ showHeatmap
  /\ heatRadius' = v
  /\ UNCHANGED <<seedVars, page, filterVars, clusterOn, showPolygons, showHeatmap, heatOpacity,
                 basemap, hillOpacity, drawVars, dataVars, addNoteMode, menu, fitKey>>
  /\ Commit({})

\* The Opacity slider, rendered while the heatmap is shown
SetHeatOpacity(v) ==
  /\ Ready
  /\ showHeatmap
  /\ heatOpacity' = v
  /\ UNCHANGED <<seedVars, page, filterVars, clusterOn, showPolygons, showHeatmap, heatRadius,
                 basemap, hillOpacity, drawVars, dataVars, addNoteMode, menu, fitKey>>
  /\ Commit({})

\* A Basemap radio button
SetBasemap(b) ==
  /\ Ready
  /\ basemap' = b
  /\ UNCHANGED <<seedVars, page, filterVars, clusterOn, showPolygons, showHeatmap, heatRadius,
                 heatOpacity, hillOpacity, drawVars, dataVars, addNoteMode, menu, fitKey>>
  /\ Commit({})

\* The Shade slider, rendered for the hillshade basemap
SetHillOpacity(v) ==
  /\ Ready
  /\ basemap = "hillshade"
  /\ hillOpacity' = v
  /\ UNCHANGED <<seedVars, page, filterVars, clusterOn, showPolygons, showHeatmap, heatRadius,
                 heatOpacity, basemap, drawVars, dataVars, addNoteMode, menu, fitKey>>
  /\ Commit({})

\* The Draw area checkbox
ToggleDrawMode ==
  /\ Ready
  /\ drawMode' = ~drawMode
  /\ drawing' = <<>>
  /\ UNCHANGED <<seedVars, page, filterVars, overlayVars, newAreaName, newAreaRisk, dataVars,
                 addNoteMode, menu, fitKey>>
  /\ Commit({})

\* The Add note checkbox
ToggleAddNoteMode ==
  /\ Ready
  /\ addNoteMode' = ~addNoteMode
  /\ UNCHANGED <<seedVars, page, filterVars, overlayVars, drawVars, dataVars, menu, fitKey>>
  /\ Commit({})

\* The Area name field, rendered in draw mode
SetNewAreaName(s) ==
  /\ Ready
  /\ drawMode
  /\ newAreaName' = s
  /\ UNCHANGED <<seedVars, page, filterVars, overlayVars, drawMode, drawing, newAreaRisk,
                 dataVars, addNoteMode, menu, fitKey>>
  /\ Commit({})

\* The risk select, rendered in draw mode
SetNewAreaRisk(r) ==
  /\ Ready
  /\ drawMode
  /\ newAreaRisk' = r
  /\ UNCHANGED <<seedVars, page, filterVars, overlayVars, drawMode, drawing, newAreaName,
                 dataVars, addNoteMode, menu, fitKey>>
  /\ Commit({})

\* drawing.map((p) => ({ lat: p[0], lng: p[1] }))
CoordsOf(d) == [i \in 1..Len(d) |-> [lat |-> d[i][1], lng |-> d[i][2]]]

\* A variant of FinishSaveDisabled that asks for a name only
FinishSaveDisabledByName == trim(newAreaName) = <<>>

\* disabled={drawing.length < 3 || !newAreaName.trim()}
FinishSaveDisabled == Len(drawing) < 3 \/ trim(newAreaName) = <<>>

\* A click on Finish & save, rendered in draw mode: a disabled button
\* dispatches no click, so nothing runs and nothing renders.
\* safeUUID() returns uuid, which is held nowhere; the area keeps its first
\* six characters only, which another area may carry already.
FinishSaveButtonGiven(uuid) ==
  /\ Ready
  /\ drawMode
  /\ IF FinishSaveDisabled
       THEN UNCHANGED vars
       ELSE /\ CanCreate
            /\ uuid \notin IdsHeld
            /\ userAreas' = Append(userAreas,
                 [id |-> AreaId(uuid), name |-> trim(newAreaName),
                  risk |-> newAreaRisk, coords |-> CoordsOf(drawing)])
            /\ drawing' = <<>>
            /\ newAreaName' = <<>>
            /\ newAreaRisk' = "Watch"
            /\ drawMode' = FALSE
            /\ UNCHANGED <<seedVars, page, filterVars, overlayVars, notes, userNodes, flagIds,
                           addNoteMode, menu, fitKey>>
            /\ Commit({"ls_user_areas"})

\* The same click when safeUUID() returns an identifier whose first six
\* characters no area carries
FinishSaveButton == FinishSaveButtonGiven(safeUUID)

\* Cancel, rendered in draw mode
CancelButton ==
  /\ Ready
  /\ drawMode
  /\ drawing' = <<>>
  /\ drawMode' = FALSE
  /\ UNCHANGED <<seedVars, page, filterVars, overlayVars, newAreaName, newAreaRisk, dataVars,
                 addNoteMode, menu, fitKey>>
  /\ Commit({})

\* Delete in the Notes list, for the j-th note
NotesListDelete(j) ==
  /\ Ready
  /\ j \in 1..Len(notes)
  /\ notes' = WithoutId(notes, notes[j].id)
  /\ UNCHANGED <<seedVars, page, filterVars, overlayVars, drawVars, userAreas, userNodes, flagIds,
                 addNoteMode, menu, fitKey>>
  /\ Commit({"ls_notes"})

(***************************************************************************)
(* The context menu.  Every item runs its action and then setMenu(null).   *)
(***************************************************************************)
\* The four literals accepted by addCheckpoint and finishArea
CheckpointRisks == <<"Info", "Watch", "Warning", "Evacuate">>

\* The three literals accepted by addDangerFlag
FlagRisks == <<"Watch", "Warning", "Evacuate">>

\* A variant of ParseRisk that compares the text as typed
ParseRiskAsTyped(input, allowed, fallback) ==
  LET r    == OrElse(input, RiskChars(fallback))
      hits == {i \in 1..Len(allowed) : RiskChars(allowed[i]) = r}
  IN  IF hits # {} THEN allowed[CHOOSE i \in hits : TRUE] ELSE fallback

\* const r = (window.prompt(...) || fallback).toLowerCase();
\* const proper = r.charAt(0).toUpperCase() + r.slice(1);
\* const risk = allowed.includes(proper) ? proper : fallback;
ParseRisk(input, allowed, fallback) ==
  LET r      == toLowerCase(OrElse(input, RiskChars(fallback)))
      proper == toUpperCase(charAt0(r)) \o slice1(r)
      hits   == {i \in 1..Len(allowed) : RiskChars(allowed[i]) = proper}
  IN  IF hits # {} THEN allowed[CHOOSE i \in hits : TRUE] ELSE fallback

\* new Date().toISOString().slice(0, 16).replace("T", " "): the clock is not
\* modelled
LastSeenNow == "now"

NewNode(id, name, risk) ==
  [id |-> id, name |-> name, lat |-> menu.lat, lng |-> menu.lng,
   types |-> <<"tilt">>, risk |-> risk, last_seen |-> LastSeenNow, battery |-> 38]

\* A variant of MenuFor that does not look at the target of the menu
MenuForAnyTarget(type) == Ready /\ menu.open

MenuFor(type) == Ready /\ menu.open /\ menu.type = type

\* Delete checkpoint / Delete danger flag
DeleteCheckpointItem ==
  /\ MenuFor("checkpoint")
  /\ LET id     == menu.id
         isFlag == \E i \in 1..Len(flagIds) : flagIds[i] = id
         NotId(x) == x # id
     IN  /\ flagIds' = IF isFlag THEN SelectSeq(flagIds, NotId) ELSE flagIds
         /\ userNodes' = WithoutId(userNodes, id)
         /\ menu' = MenuNull
         /\ UNCHANGED <<seedVars, page, filterVars, overlayVars, drawVars, notes, userAreas,
                        addNoteMode, fitKey>>
         /\ Commit(IF isFlag THEN {"ls_user_nodes", "ls_flag_ids"} ELSE {"ls_user_nodes"})

\* Delete note
DeleteNoteItem ==
  /\ MenuFor("note")
  /\ notes' = WithoutId(notes, menu.id)
  /\ menu' = MenuNull
  /\ UNCHANGED <<seedVars, page, filterVars, overlayVars, drawVars, userAreas, userNodes, flagIds,
                 addNoteMode, fitKey>>
  /\ Commit({"ls_notes"})

\* Delete area
DeleteAreaItem ==
  /\ MenuFor("area")
  /\ userAreas' = WithoutId(userAreas, menu.id)
  /\ menu' = MenuNull
  /\ UNCHANGED <<seedVars, page, filterVars, overlayVars, drawVars, notes, userNodes, flagIds,
                 addNoteMode, fitKey>>
  /\ Commit({"ls_user_areas"})

\* A variant of AddVertexItem that is offered whatever drawMode is
AddVertexItemAnyMode ==
  /\ MenuFor("none")
  /\ Len(drawing) < MaxDraw
  /\ drawing' = Append(drawing, <<menu.lat, menu.lng>>)
  /\ menu' = MenuNull
  /\ UNCHANGED <<seedVars, page, filterVars, overlayVars, drawMode, newAreaName, newAreaRisk,
                 dataVars, addNoteMode, fitKey>>
  /\ Commit({})

\* Add vertex here (draw mode)
AddVertexItem ==
  /\ MenuFor("none")
  /\ drawMode
  /\ Len(drawing) < MaxDraw
  /\ drawing' = Append(drawing, <<menu.lat, menu.lng>>)
  /\ menu' = MenuNull
  /\ UNCHANGED <<seedVars, page, filterVars, overlayVars, drawMode, newAreaName, newAreaRisk,
                 dataVars, addNoteMode, fitKey>>
  /\ Commit({})

\* Undo last vertex (draw mode, drawing.length > 0)
UndoVertexItem ==
  /\ MenuFor("none")
  /\ drawMode
  /\ Len(drawing) > 0
  /\ drawing' = SubSeq(drawing, 1, Len(drawing) - 1)
  /\ menu' = MenuNull
  /\ UNCHANGED <<seedVars, page, filterVars, overlayVars, drawMode, newAreaName, newAreaRisk,
                 dataVars, addNoteMode, fitKey>>
  /\ Commit({})

\* const finishArea; nm and r are what the two prompts return
finishAreaGiven(uuid, nm, r) ==
  IF Len(drawing) < 3
    THEN UNCHANGED <<drawVars, userAreas>> /\ Commit({})
    ELSE /\ CanCreate
         /\ uuid \notin IdsHeld
         /\ userAreas' = Append(userAreas,
              [id |-> AreaId(uuid),
               name |-> OrElse(nm, <<"N","e","w"," ","a","r","e","a">>),
               risk |-> ParseRisk(r, CheckpointRisks, "Watch"),
               coords |-> CoordsOf(drawing)])
         /\ drawing' = <<>>
         /\ newAreaName' = <<>>
         /\ newAreaRisk' = "Watch"
         /\ drawMode' = FALSE
         /\ Commit({"ls_user_areas"})

finishArea(nm, r) == finishAreaGiven(safeUUID, nm, r)

\* Finish area (draw mode, drawing.length >= 3), safeUUID() returning uuid
FinishAreaItemGiven(uuid, nm, r) ==
  /\ MenuFor("none")
  /\ drawMode
  /\ Len(drawing) >= 3
  /\ menu' = MenuNull
  /\ UNCHANGED <<seedVars, page, filterVars, overlayVars, notes, userNodes, flagIds,
                 addNoteMode, fitKey>>
  /\ finishAreaGiven(uuid, nm, r)

FinishAreaItem(nm, r) == FinishAreaItemGiven(safeUUID, nm, r)

\* Cancel drawing (draw mode)
CancelDrawingItem ==
  /\ MenuFor("none")
  /\ drawMode
  /\ drawing' = <<>>
  /\ drawMode' = FALSE
  /\ menu' = MenuNull
  /\ UNCHANGED <<seedVars, page, filterVars, overlayVars, newAreaName, newAreaRisk, dataVars,
                 addNoteMode, fitKey>>
  /\ Commit({})

\* Start draw area & add first vertex here
StartDrawItem ==
  /\ MenuFor("none")
  /\ ~drawMode
  /\ drawMode' = TRUE
  /\ drawing' = << <<menu.lat, menu.lng>> >>
  /\ menu' = MenuNull
  /\ UNCHANGED <<seedVars, page, filterVars, overlayVars, newAreaName, newAreaRisk, dataVars,
                 addNoteMode, fitKey>>
  /\ Commit({})

\* Add note here; text is what window.prompt returns
AddNoteItem(text) ==
  /\ MenuFor("none")
  /\ ~drawMode
  /\ menu' = MenuNull
  /\ UNCHANGED <<seedVars, page, filterVars, overlayVars, drawVars, userAreas, userNodes, flagIds,
                 addNoteMode, fitKey>>
  /\ IF NoteAccepted(text)
       THEN /\ CanCreate
            /\ notes' = Append(notes, NewNote(menu.lat, menu.lng, text))
            /\ Commit({"ls_notes"})
       ELSE /\ UNCHANGED notes
            /\ Commit({})

\* const addCheckpoint; name and r are what the two prompts return.  The
\* default name takes its four characters from a second call of safeUUID, for
\* which the model uses the identifier of the node.
addCheckpoint(name, r) ==
  /\ userNodes' = Append(userNodes,
       NewNode(safeUUID,
               OrElse(name, <<"C","h","e","c","k","p","o","i","n","t"," ">> \o slice0(safeUUID, 4)),
               ParseRisk(r, CheckpointRisks, "Watch")))
  /\ UNCHANGED flagIds

\* Add checkpoint here
AddCheckpointItem(name, r) ==
  /\ MenuFor("none")
  /\ ~drawMode
  /\ CanCreate
  /\ addCheckpoint(name, r)
  /\ menu' = MenuNull
  /\ UNCHANGED <<seedVars, page, filterVars, overlayVars, drawVars, notes, userAreas,
                 addNoteMode, fitKey>>
  /\ Commit({"ls_user_nodes"})

\* const addDangerFlag; name and r are what the two prompts return
addDangerFlag(name, r) ==
  /\ userNodes' = Append(userNodes,
       NewNode(safeUUID,
               OrElse(name, <<"D","a","n","g","e","r"," ","F","l","a","g">>),
               ParseRisk(r, FlagRisks, "Warning")))
  /\ flagIds' = Append(flagIds, safeUUID)

\* Add danger flag here
AddDangerFlagItem(name, r) ==
  /\ MenuFor("none")
  /\ ~drawMode
  /\ CanCreate
  /\ addDangerFlag(name, r)
  /\ menu' = MenuNull
  /\ UNCHANGED <<seedVars, page, filterVars, overlayVars, drawVars, notes, userAreas,
                 addNoteMode, fitKey>>
  /\ Commit({"ls_user_nodes", "ls_flag_ids"})

(***************************************************************************)
(* Inputs of the environment.                                              *)
(***************************************************************************)
\* Places the user clicks: one inside the extent of the seed data (where the
\* marker of U1 stands), one outside it
InsidePoint == [lat |-> 307280, lng |-> 784430]

OutsidePoint == [lat |-> 308200, lng |-> 786000]

Points == {InsidePoint, OutsidePoint}

\* Texts typed at the note prompt: cancelled, empty, blank, padded
NoteTexts == {NULL, <<>>, <<" ">>, <<" ","n"," ">>}

\* Texts of the Area name field
AreaNameTexts == {<<>>, <<" ">>, <<"A"," ">>}

\* Texts typed at a risk prompt: cancelled, empty, the four levels in various
\* cases, a padded level and a word that is no level
RiskTexts ==
  {NULL, <<>>, <<"i","n","f","o">>, <<"I","N","F","O">>, <<"W","a","t","c","h">>,
   <<"w","A","R","N","I","N","G">>, <<"E","v","a","c","u","a","t","e">>,
   <<" ","w","a","t","c","h">>, <<"h","i","g","h">>}

\* Texts of the search box
Queries == {<<>>, <<" ","u","1"," ">>, <<"R","I">>, <<"e","7">>, <<"z">>}

\* The displayed markers of user nodes
UserMarkers == (Len(filteredNodes) + 1)..Len(Displayed)

\* The displayed markers of user nodes, and the first seed marker
\* Values of safeUUID() for a new area: the first two have their first six
\* characters in common, the third has not
AreaUuids == {Uuid(1), Uuid(2), Uuid(3)}

SampleMarkers == {1} \cup UserMarkers

(***************************************************************************)
(* Drawing an area: the draw items of the menu and the panel.              *)
(***************************************************************************)
NextDraw ==
  \/ MountEffects
  \/ FlushEffects
  \/ MapClick(InsidePoint, NULL)
  \/ MapContextMenu(InsidePoint)
  \/ \E i \in 1..(Len(AREAS) + MaxItems), bubbles \in BOOLEAN :
       PolygonContextMenu(i, InsidePoint, bubbles)
  \/ ToggleDrawMode
  \/ \E s \in AreaNameTexts : SetNewAreaName(s)
  \/ FinishSaveButton
  \/ CancelButton
  \/ AddVertexItem
  \/ UndoVertexItem
  \/ FinishAreaItem(NULL, NULL)
  \/ CancelDrawingItem
  \/ StartDrawItem
  \/ DeleteAreaItem

SpecDraw == Init /\ [][NextDraw]_vars

(***************************************************************************)
(* Map clicks in the two modes.                                            *)
(***************************************************************************)
NextClick ==
  \/ MountEffects
  \/ FlushEffects
  \/ \E pt \in Points, text \in NoteTexts : MapClick(pt, text)
  \/ \E pt \in Points : MapContextMenu(pt)
  \/ ToggleDrawMode
  \/ ToggleAddNoteMode
  \/ \E j \in 1..MaxItems : NotesListDelete(j)

SpecClick == Init /\ [][NextClick]_vars

(***************************************************************************)
(* Creating and deleting notes, checkpoints, flags and areas next to the   *)
(* seed data.                                                              *)
(***************************************************************************)
NextData ==
  \/ MountEffects
  \/ FlushEffects
  \/ MapContextMenu(InsidePoint)
  \/ \E i \in SampleMarkers : MarkerContextMenu(i)
  \/ \E i \in 1..(Len(AREAS) + MaxItems), bubbles \in BOOLEAN :
       PolygonContextMenu(i, InsidePoint, bubbles)
  \/ \E j \in 1..MaxItems : NotesListDelete(j)
  \/ DeleteCheckpointItem
  \/ DeleteAreaItem
  \/ AddVertexItem
  \/ FinishAreaItem(NULL, NULL)
  \/ StartDrawItem
  \/ AddNoteItem(<<"n">>)
  \/ AddCheckpointItem(NULL, NULL)
  \/ AddDangerFlagItem(NULL, NULL)
  \/ ToggleRisk("Watch")
  \/ resetFilters

Spec == Init /\ [][NextData]_vars

(***************************************************************************)
(* The filters and the view-model derived from them.                       *)
(***************************************************************************)
NextFilter ==
  \/ MountEffects
  \/ FlushEffects
  \/ \E q \in Queries : SetQuery(q)
  \/ \E r \in RiskSet : ToggleRisk(r)
  \/ \E t \in SensorTypeSet : ToggleType(t)
  \/ resetFilters
  \/ MapContextMenu(InsidePoint)
  \/ \E r \in {NULL, <<"e","v","a","c","u","a","t","e">>} : AddCheckpointItem(NULL, r)

SpecFilter == Init /\ [][NextFilter]_vars

(***************************************************************************)
(* Fitting the map to the data.                                            *)
(***************************************************************************)
NextFit ==
  \/ MountEffects
  \/ FlushEffects
  \/ \E q \in {<<>>, <<"z">>, <<"R","I">>} : SetQuery(q)
  \/ resetFilters
  \/ ToggleShowPolygons
  \/ MapContextMenu(OutsidePoint)
  \/ \E i \in UserMarkers : MarkerContextMenu(i)
  \/ AddCheckpointItem(NULL, NULL)
  \/ DeleteCheckpointItem
  \/ StartDrawItem
  \/ AddVertexItem
  \/ FinishAreaItem(NULL, NULL)
  \/ \E i \in 1..(Len(AREAS) + MaxItems) : PolygonContextMenu(i, OutsidePoint, FALSE)
  \/ DeleteAreaItem

SpecFit == Init /\ [][NextFit]_vars

(***************************************************************************)
(* The risk prompts.                                                       *)
(***************************************************************************)
NextRisk ==
  \/ MountEffects
  \/ FlushEffects
  \/ MapContextMenu(InsidePoint)
  \/ \E i \in SampleMarkers : MarkerContextMenu(i)
  \/ \E r \in RiskTexts : AddCheckpointItem(NULL, r)
  \/ \E r \in RiskTexts : AddDangerFlagItem(NULL, r)
  \/ DeleteCheckpointItem
  \/ StartDrawItem
  \/ AddVertexItem
  \/ \E r \in RiskSet : SetNewAreaRisk(r)
  \/ \E s \in {<<"A">>} : SetNewAreaName(s)
  \/ FinishSaveButton
  \/ \E r \in RiskTexts \cup {RiskChars(newAreaRisk)} : FinishAreaItem(NULL, r)
  \/ \E i \in 1..(Len(AREAS) + MaxItems) : PolygonContextMenu(i, InsidePoint, FALSE)
  \/ DeleteAreaItem

SpecRisk == Init /\ [][NextRisk]_vars

(***************************************************************************)
(* Local storage across mounts.                                            *)
(***************************************************************************)
NextStore ==
  \/ MountEffects
  \/ FlushEffects
  \/ RerenderAfterLoad
  \/ Remount
  \/ QuotaExhausted
  \/ MapContextMenu(InsidePoint)
  \/ AddNoteItem(<<"n">>)
  \/ AddDangerFlagItem(NULL, NULL)
  \/ StartDrawItem
  \/ AddVertexItem
  \/ FinishAreaItem(NULL, NULL)
  \/ \E j \in 1..MaxItems : NotesListDelete(j)

SpecStore == Init /\ [][NextStore]_vars

(***************************************************************************)
(* Properties of drawing (SpecDraw).                                       *)
(***************************************************************************)
AreasHaveThreeVertices ==
  \A i \in 1..Len(userAreas) : Len(userAreas[i].coords) >= 3

\* C1: every area appended to userAreas has at least 3 vertices; no step
\* taken with fewer than 3 vertices in the drawing adds an area, and a click on
\* Finish & save or a run of the Finish area item with fewer than 3 vertices
\* leaves userAreas, drawing and drawMode unchanged.
MinThreeVertices ==
  /\ []AreasHaveThreeVertices
  /\ [][Len(drawing) < 3 =>
          /\ Len(userAreas') <= Len(userAreas)
          /\ (FinishSaveButton \/ FinishAreaItem(NULL, NULL))
               => UNCHANGED <<userAreas, drawing, drawMode>>]_vars

\* An area has been saved and a new drawing of one or two vertices, with a
\* name typed, is in progress: Finish & save is rendered and disabled for the
\* number of vertices alone.
ShortDrawingAfterArea ==
  /\ Len(userAreas) >= 1
  /\ drawMode
  /\ Len(drawing) \in 1..2
  /\ trim(newAreaName) # <<>>

(***************************************************************************)
(* Properties of the seed data (Spec).                                     *)
(***************************************************************************)
SeedIds == IdsOf(SeedNodes) \cup IdsOf(SeedAreas)

\* C2: the seed lists NODES and AREAS always hold the seed data as
\* constructed; user items live in the user collections under identifiers no
\* seed item has; no seed node counts as a user node (so its popup shows no
\* delete button), and a menu with a delete target never targets a seed
\* node or a seed polygon.
SeedDataImmutable ==
  /\ NODES = SeedNodes
  /\ AREAS = SeedAreas
  /\ (IdsOf(userNodes) \cup IdsOf(userAreas) \cup IdsOf(notes) \cup Elems(flagIds))
       \cap SeedIds = {}
  /\ \A i \in 1..Len(NODES) : ~IsUserNode(NODES[i])
  /\ menu.type # "none" => menu.id \notin SeedIds

\* The menu is open from a right click on the marker of the seed node U2,
\* while a user node and a user area exist.
SeedMarkerMenuOpen ==
  /\ menu.open
  /\ menu.type = "none"
  /\ menu.lat = SeedNodes[2].lat
  /\ menu.lng = SeedNodes[2].lng
  /\ Len(userNodes) >= 1
  /\ Len(userAreas) >= 1

(***************************************************************************)
(* Properties of the filter pipeline (SpecFilter).                         *)
(***************************************************************************)
QueryMatches(n) ==
  LET q == toLowerCase(trim(query))
  IN  q = <<>> \/ includes(toLowerCase(n.id), q) \/ includes(toLowerCase(n.name), q)

PassesFilters(n) ==
  /\ riskFilter[n.risk]
  /\ \E t \in SensorTypeSet : typeFilter[t] /\ t \in Elems(n.types)
  /\ QueryMatches(n)

\* C3: a seed or user node is among the displayed markers exactly when its
\* risk is enabled, one of its sensor types is enabled and the trimmed,
\* lower-cased query is empty or occurs in its lower-cased id or name; the
\* displayed markers are nodes, each once.
DisplayedIffPassesFilters ==
  /\ \A n \in Elems(NODES) \cup Elems(userNodes) :
       n \in Elems(Displayed) <=> PassesFilters(n)
  /\ Elems(Displayed) \subseteq Elems(NODES) \cup Elems(userNodes)
  /\ Cardinality(Elems(Displayed)) = Len(Displayed)

\* The query RI, typed in capitals, shows the two seed nodes whose names
\* hold "ri" and hides an existing user node.
QuerySelectsByName ==
  /\ query = <<"R","I">>
  /\ Len(filteredNodes) = 2
  /\ Len(userNodes) >= 1
  /\ filteredUserNodes = <<>>

\* C4: for each risk level countsByRisk holds the number of displayed nodes
\* (filtered seed plus filtered user nodes) of that level, and the four
\* counts add up to the number of displayed markers.
CountsMatchDisplayed ==
  /\ \A r \in RiskSet :
       countsByRisk[r] = Cardinality({i \in 1..Len(Displayed) : Displayed[i].risk = r})
  /\ countsByRisk["Info"] + countsByRisk["Watch"] + countsByRisk["Warning"]
       + countsByRisk["Evacuate"] = Len(Displayed)

\* A user node of risk Evacuate is displayed while a filter hides some of
\* the seed nodes.
CountsIncludeUserNode ==
  /\ Len(filteredUserNodes) >= 1
  /\ Len(filteredNodes) \in 1..(Len(NODES) - 1)
  /\ countsByRisk["Evacuate"] >= 1

RiskRank(r) == CHOOSE i \in 1..Len(Risk) : Risk[i] = r

\* C5: heatPoints holds one point per displayed node, in order, at the
\* node's coordinate; two nodes of one risk level have one weight, and the
\* weight grows strictly along Info < Watch < Warning < Evacuate.
HeatPointsMatchDisplayed ==
  /\ Len(heatPoints) = Len(Displayed)
  /\ \A i \in 1..Len(Displayed) :
       /\ heatPoints[i][1] = Displayed[i].lat
       /\ heatPoints[i][2] = Displayed[i].lng
  /\ \A i, j \in 1..Len(Displayed) :
       /\ Displayed[i].risk = Displayed[j].risk => heatPoints[i][3] = heatPoints[j][3]
       /\ RiskRank(Displayed[i].risk) < RiskRank(Displayed[j].risk)
            => heatPoints[i][3] < heatPoints[j][3]
  /\ \A a, b \in 1..Len(Risk) : a < b => riskWeight(Risk[a]) < riskWeight(Risk[b])

\* All seed nodes and a user node are displayed, and every risk level has a
\* heat point.
HeatPointsOfAllLevels ==
  /\ Len(heatPoints) = Len(NODES) + 1
  /\ \A r \in RiskSet : \E i \in 1..Len(Displayed) :
       Displayed[i].risk = r /\ heatPoints[i][3] = riskWeight(r)

(***************************************************************************)
(* Properties of fitting (SpecFit).                                        *)
(***************************************************************************)
PointsOf(seq) == {[lat |-> seq[i].lat, lng |-> seq[i].lng] : i \in 1..Len(seq)}

AreaVertices ==
  UNION {PointsOf((AREAS \o userAreas)[i].coords) : i \in 1..Len(AREAS \o userAreas)}

\* The points the fitted bounds are to enclose: the displayed nodes, or all
\* nodes when none is displayed, and the vertices of all areas
FitPoints ==
  (IF Displayed # <<>> THEN PointsOf(Displayed) ELSE PointsOf(NODES \o userNodes))
    \cup AreaVertices

\* C6: once the effects of the first render have run, the bounds last fitted
\* are the bounding box of the displayed nodes (of all seed and user nodes
\* when no node is displayed) and of every vertex of every seed and user
\* area, whatever showPolygons is: each side touches one of these points and
\* no point lies outside; so every displayed marker and every area vertex is
\* inside, and the padded view encloses the box.
FitBoundsAreUnion ==
  phase # "mounting" =>
    LET b == fitted.bounds
        v == fitted.view
    IN  /\ b.valid
        /\ \A p \in FitPoints :
             b.south <= p.lat /\ p.lat <= b.north /\ b.west <= p.lng /\ p.lng <= b.east
        /\ \E p \in FitPoints : p.lat = b.south
        /\ \E p \in FitPoints : p.lat = b.north
        /\ \E p \in FitPoints : p.lng = b.west
        /\ \E p \in FitPoints : p.lng = b.east
        /\ PointsOf(Displayed) \cup AreaVertices \subseteq FitPoints
        /\ v.south <= b.south /\ b.north <= v.north /\ v.west <= b.west /\ b.east <= v.east

\* The query hides every node and the polygons are hidden; there is no user
\* area, and the box reaches the user checkpoint placed outside the extent of
\* the seed data.
FitFallsBackToAllNodes ==
  /\ Displayed = <<>>
  /\ ~showPolygons
  /\ userAreas = <<>>
  /\ Len(userNodes) >= 1
  /\ fitted.bounds.north = OutsidePoint.lat
  /\ fitted.bounds.east = OutsidePoint.lng

(***************************************************************************)
(* Properties of persistence (SpecStore).                                  *)
(***************************************************************************)
Collection(k) == CollectionOf(k, userAreas, userNodes, notes, flagIds)

StorageHoldsMemory ==
  Ready => \A k \in StorageKeySet :
             k \notin writeThrew => localStorage[k] = stringify(Collection(k))

\* C7: whenever no effect is left to run, each of the four keys whose last
\* write did not throw holds the text of the current in-memory collection;
\* the persist effects never change the React state, and while writes throw
\* they leave the stored texts as they were too.
StorageFollowsMemory ==
  /\ []StorageHoldsMemory
  /\ [][FlushEffects =>
          /\ UNCHANGED <<seedVars, page, filterVars, overlayVars, drawVars, dataVars,
                         addNoteMode, menu, fitKey, derivedVars>>
          /\ quotaFull => localStorage' = localStorage]_vars

\* A danger flag was stored; then the quota ran out and the write of a new
\* note threw: the note is in memory, the stored notes are the old ones.
NoteWriteThrew ==
  /\ Ready
  /\ "ls_notes" \in writeThrew
  /\ "ls_user_nodes" \notin writeThrew
  /\ Len(notes) >= 1
  /\ Len(userNodes) >= 1
  /\ Len(flagIds) >= 1
  /\ localStorage["ls_notes"] = stringify(<<>>)
  /\ localStorage["ls_user_nodes"] = stringify(userNodes)

\* The step that ends a mount: the mount effects when nothing was loaded,
\* otherwise the persist effects of the re-render after the load
MountCompletes == phase \in {"mounting", "loaded"} /\ phase' = "ready"

ExpectedRisk(input, allowed, fallback) ==
  LET hits == {i \in 1..Len(allowed) :
                 Truthy(input) /\ toLowerCase(input) = toLowerCase(RiskChars(allowed[i]))}
  IN  IF hits # {} THEN allowed[CHOOSE i \in hits : TRUE] ELSE fallback

RisksAreLevels ==
  /\ \A i \in 1..Len(userNodes) : userNodes[i].risk \in RiskSet
  /\ \A i \in 1..Len(userAreas) : userAreas[i].risk \in RiskSet

\* C9: every user node and user area has one of the four risk levels; the
\* checkpoint, the flag and the area a prompt creates get the level the typed
\* text names, compared without regard to case, and otherwise Watch
\* (checkpoints, areas) or Warning (flags, for which Info is no level).
RiskPromptsYieldLevels ==
  /\ []RisksAreLevels
  /\ [][\A r \in RiskTexts :
          /\ AddCheckpointItem(NULL, r) =>
               userNodes'[Len(userNodes')].risk = ExpectedRisk(r, CheckpointRisks, "Watch")
          /\ AddDangerFlagItem(NULL, r) =>
               userNodes'[Len(userNodes')].risk = ExpectedRisk(r, FlagRisks, "Warning")
          /\ FinishAreaItem(NULL, r) =>
               userAreas'[Len(userAreas')].risk = ExpectedRisk(r, CheckpointRisks, "Watch")]_vars

\* A checkpoint of risk Info, which only the texts info and INFO give, next
\* to a danger flag of risk Warning.
InfoCheckpointAndWarningFlag ==
  \E i, j \in 1..Len(userNodes) :
    /\ userNodes[i].risk = "Info"
    /\ userNodes[i].id \notin Elems(flagIds)
    /\ userNodes[j].id \in Elems(flagIds)
    /\ userNodes[j].risk = "Warning"

(***************************************************************************)
(* Properties of map clicks (SpecClick).                                   *)
(***************************************************************************)
HasText(text) == text # NULL /\ \E i \in 1..Len(text) : ~IsWhiteSpace(text[i])

\* C10: a map click closes the menu and touches nothing but the menu, the
\* drawing and the notes: in draw mode it appends the clicked point to the
\* drawing and adds no note, whatever addNoteMode is; otherwise in add-note
\* mode it leaves the drawing and appends one note at the clicked point if
\* the prompt returned a text that is not blank, none if not; otherwise it
\* changes neither.
MapClickOneAction ==
  [][\A pt \in Points, text \in NoteTexts :
       MapClick(pt, text) =>
         /\ menu' = MenuNull
         /\ UNCHANGED <<seedVars, page, filterVars, overlayVars, drawMode, addNoteMode,
                        newAreaName, newAreaRisk, userAreas, userNodes, flagIds, fitKey>>
         /\ IF drawMode
              THEN /\ drawing' = Append(drawing, <<pt.lat, pt.lng>>)
                   /\ notes' = notes
              ELSE /\ drawing' = drawing
                   /\ IF addNoteMode /\ HasText(text)
                        THEN /\ Len(notes') = Len(notes) + 1
                             /\ SubSeq(notes', 1, Len(notes)) = notes
                             /\ notes'[Len(notes')].lat = pt.lat
                             /\ notes'[Len(notes')].lng = pt.lng
                             /\ notes'[Len(notes')].text = trim(text)
                        ELSE notes' = notes]_vars

\* Both modes are on; a note was added before draw mode was switched on, and
\* two clicks since then went to the drawing, the last at the outside point.
ClicksWentToDrawing ==
  /\ drawMode
  /\ addNoteMode
  /\ ~menu.open
  /\ Len(notes) = 1
  /\ Len(drawing) >= 2
  /\ drawing[Len(drawing)] = <<OutsidePoint.lat, OutsidePoint.lng>>

(***************************************************************************)
(* Further properties of drawing (SpecDraw).                               *)
(***************************************************************************)
\* C11: while drawMode is off the drawing is empty, in every reachable state:
\* each way out of draw mode clears the vertex list and no handler adds a
\* vertex while drawMode is off, the items of a menu that stayed open across
\* the change included.
NoDrawingOutsideDrawMode == ~drawMode => drawing = <<>>

\* Draw mode has been left by saving an area, and a menu without target is
\* open, showing the items for drawMode off.
MenuOpenAfterLeavingDrawMode ==
  /\ ~drawMode
  /\ drawing = <<>>
  /\ menu.open
  /\ menu.type = "none"
  /\ Len(userAreas) >= 1

(***************************************************************************)
(* Danger flags and the two ways of deleting a user node.                  *)
(***************************************************************************)
NextFlag ==
  \/ MountEffects
  \/ FlushEffects
  \/ MapContextMenu(InsidePoint)
  \/ AddCheckpointItem(NULL, NULL)
  \/ AddDangerFlagItem(NULL, NULL)
  \/ \E i \in UserMarkers : MarkerContextMenu(i)
  \/ DeleteCheckpointItem
  \/ \E i \in UserMarkers : PopupDeleteCheckpoint(i)

SpecFlag == Init /\ [][NextFlag]_vars

\* C12: every id in flagIds is the id of a node in userNodes, in every
\* reachable state.
FlagIdsNameUserNodes == Elems(flagIds) \subseteq IdsOf(userNodes)

(***************************************************************************)
(* Notes: the two entry points and the two ways of deleting.               *)
(***************************************************************************)
NextNote ==
  \/ MountEffects
  \/ FlushEffects
  \/ ToggleAddNoteMode
  \/ \E text \in NoteTexts : MapClick(OutsidePoint, text)
  \/ MapContextMenu(InsidePoint)
  \/ \E text \in NoteTexts : AddNoteItem(text)
  \/ \E j \in 1..MaxItems : NoteContextMenu(j)
  \/ DeleteNoteItem
  \/ \E j \in 1..MaxItems : NotesListDelete(j)

SpecNote == Init /\ [][NextNote]_vars

NotesHaveBody ==
  \A j \in 1..Len(notes) :
    /\ notes[j].text # <<>>
    /\ ~IsWhiteSpace(notes[j].text[1])
    /\ ~IsWhiteSpace(notes[j].text[Len(notes[j].text)])

\* The effect on notes of an entry point that received text from the prompt
NoteFlowResult(text) ==
  IF HasText(text)
    THEN /\ Len(notes') = Len(notes) + 1
         /\ SubSeq(notes', 1, Len(notes)) = notes
         /\ notes'[Len(notes')].text = trim(text)
    ELSE notes' = notes

\* C13: every note has a body that is not empty and carries no blank at
\* either end; a map click in add-note mode and the item Add note here append
\* one note holding the trimmed text when the prompt returned a text that is
\* not blank, and leave notes unchanged when it was cancelled, empty or blank.
NotesOnlyFromText ==
  /\ []NotesHaveBody
  /\ [][\A text \in NoteTexts :
          /\ (addNoteMode /\ MapClick(OutsidePoint, text)) => NoteFlowResult(text)
          /\ AddNoteItem(text) => NoteFlowResult(text)]_vars

\* One note came from a map click at the outside point and one from the
\* menu at the inside point; add-note mode is on.
NotesFromBothEntryPoints ==
  /\ addNoteMode
  /\ Len(notes) = 2
  /\ \E i, j \in 1..2 :
       /\ notes[i].lat = OutsidePoint.lat
       /\ notes[j].lat = InsidePoint.lat
       /\ notes[i].text = <<"n">>
       /\ notes[j].text = <<"n">>

(***************************************************************************)
(* Naming an area on the two finishing paths.                              *)
(***************************************************************************)
NextName ==
  \/ MountEffects
  \/ FlushEffects
  \/ ToggleDrawMode
  \/ MapClick(InsidePoint, NULL)
  \/ MapContextMenu(InsidePoint)
  \/ \E s \in AreaNameTexts : SetNewAreaName(s)
  \/ FinishSaveButton
  \/ \E nm \in AreaNameTexts \cup {NULL} : FinishAreaItem(nm, NULL)

SpecName == Init /\ [][NextName]_vars

\* C14: every user area has a name that is not empty after trimming, in
\* every reachable state, whichever of Finish & save and the menu item
\* Finish area stored it.
AreaNamesNotBlank == \A i \in 1..Len(userAreas) : trim(userAreas[i].name) # <<>>

(***************************************************************************)
(* Creating and deleting the items of the user collections.                *)
(***************************************************************************)
NextFrame ==
  \/ MountEffects
  \/ FlushEffects
  \/ ToggleDrawMode
  \/ MapClick(InsidePoint, NULL)
  \/ MapContextMenu(InsidePoint)
  \/ SetNewAreaName(<<"A", " ">>)
  \/ \E uuid \in AreaUuids : FinishSaveButtonGiven(uuid)
  \/ \E uuid \in AreaUuids : FinishAreaItemGiven(uuid, NULL, NULL)
  \/ AddNoteItem(<<" ", "n", " ">>)
  \/ AddCheckpointItem(NULL, NULL)
  \/ AddDangerFlagItem(NULL, NULL)
  \/ \E j \in 1..MaxItems : NoteContextMenu(j)
  \/ \E i \in UserMarkers : MarkerContextMenu(i)
  \/ \E i \in 1..(Len(AREAS) + MaxItems) : PolygonContextMenu(i, InsidePoint, FALSE)
  \/ DeleteNoteItem
  \/ DeleteCheckpointItem
  \/ DeleteAreaItem
  \/ \E j \in 1..MaxItems : NotesListDelete(j)
  \/ \E i \in UserMarkers : PopupDeleteCheckpoint(i)

SpecFrame == Init /\ [][NextFrame]_vars

AppendedOne(old, new) == Len(new) = Len(old) + 1 /\ SubSeq(new, 1, Len(old)) = old

RemoveAt(seq, k) == SubSeq(seq, 1, k - 1) \o SubSeq(seq, k + 1, Len(seq))

RemovedOne(old, new, id) == \E k \in 1..Len(old) : old[k].id = id /\ new = RemoveAt(old, k)

MenuTargetIn(seq) == menu.id \in IdsOf(seq)

NextMenu ==
  \/ MountEffects
  \/ FlushEffects
  \/ ToggleDrawMode
  \/ MapClick(InsidePoint, NULL)
  \/ MapContextMenu(InsidePoint)
  \/ \E i \in SampleMarkers : MarkerContextMenu(i)
  \/ \E j \in 1..MaxItems : NoteContextMenu(j)
  \/ \E i \in 1..(Len(AREAS) + MaxItems), bubbles \in BOOLEAN :
       PolygonContextMenu(i, InsidePoint, bubbles)
  \/ DeleteCheckpointItem
  \/ DeleteNoteItem
  \/ DeleteAreaItem
  \/ AddVertexItem
  \/ UndoVertexItem
  \/ FinishAreaItem(NULL, NULL)
  \/ CancelDrawingItem
  \/ StartDrawItem
  \/ AddNoteItem(<<" ", "n", " ">>)
  \/ AddCheckpointItem(NULL, NULL)
  \/ AddDangerFlagItem(NULL, NULL)

SpecMenu == Init /\ [][NextMenu]_vars

\* An item of the menu without target is activated
UntargetedItem ==
  \/ AddVertexItem
  \/ UndoVertexItem
  \/ FinishAreaItem(NULL, NULL)
  \/ CancelDrawingItem
  \/ StartDrawItem
  \/ AddNoteItem(<<" ", "n", " ">>)
  \/ AddCheckpointItem(NULL, NULL)
  \/ AddDangerFlagItem(NULL, NULL)

AnyItem == UntargetedItem \/ DeleteCheckpointItem \/ DeleteNoteItem \/ DeleteAreaItem

ChangedSettings ==
  LET flags == <<query # <<>>, riskFilter # AllRisksOn, typeFilter # AllTypesOn,
                 ~showPolygons, showHeatmap, heatRadius # 30, heatOpacity # 60,
                 ~clusterOn, basemap # "osm", hillOpacity # 60,
                 drawMode, drawing # <<>>, addNoteMode>>
  IN  Cardinality({i \in 1..Len(flags) : flags[i]}) + ItemCount

\* The step A, taken while it leaves at most MaxChanged settings changed
Few(A) == A /\ ChangedSettings' <= MaxChanged

NextReset ==
  \/ MountEffects
  \/ FlushEffects
  \/ Few(SetQuery(<<"z">>))
  \/ Few(ToggleRisk("Info"))
  \/ Few(ToggleType("rain"))
  \/ Few(ToggleShowPolygons)
  \/ Few(ToggleShowHeatmap)
  \/ Few(SetHeatRadius(10))
  \/ Few(SetHeatOpacity(30))
  \/ resetFilters
  \/ Few(ToggleCluster)
  \/ Few(SetBasemap("hillshade"))
  \/ Few(SetHillOpacity(30))
  \/ Few(ToggleDrawMode)
  \/ Few(ToggleAddNoteMode)
  \/ Few(MapClick(InsidePoint, <<" ", "n", " ">>))
  \/ MapContextMenu(InsidePoint)
  \/ Few(AddDangerFlagItem(NULL, NULL))
  \/ Few(FinishAreaItem(NULL, NULL))

SpecReset == Init /\ [][NextReset]_vars

NextHeat ==
  \/ MountEffects
  \/ FlushEffects
  \/ ToggleShowHeatmap
  \/ SetHeatRadius(10)
  \/ SetHeatOpacity(30)
  \/ \E q \in {<<>>, <<"z">>} : SetQuery(q)
  \/ ToggleRisk("Info")
  \/ resetFilters
  \/ MapContextMenu(InsidePoint)
  \/ AddDangerFlagItem(NULL, NULL)
  \/ PluginLoaded
  \/ StalePluginLoaded
  \/ Remount

SpecHeat == Init /\ [][NextHeat]_vars

\* C18: at most one heat layer is on the map, and none while showHeatmap is
\* off or no node is displayed, in every reachable state; and a plugin load
\* that completes after its HeatLayer has unmounted attaches no layer and
\* changes no state of HeatLayer or MapView.
HeatLayerBalanced ==
  /\ [](/\ heatLayer.layers \in {0, 1}
        /\ (~showHeatmap \/ Len(Displayed) = 0) => heatLayer.layers = 0)
  /\ [][StalePluginLoaded =>
          /\ heatLayer'.layers = heatLayer.layers
          /\ heatLayer'.ready = heatLayer.ready
          /\ heatLayer'.mounted = heatLayer.mounted
          /\ heatLayer'.own = heatLayer.own
          /\ UNCHANGED <<filterVars, overlayVars, drawVars, dataVars, addNoteMode, menu,
                         fitKey, filteredNodes, filteredUserNodes, countsByRisk,
                         heatPoints, fitted>>]_vars

\* A layer is attached with a changed radius while the import of an earlier
\* HeatLayer is still pending
LayerAttachedWithStaleImport ==
  /\ showHeatmap
  /\ heatRadius = 10
  /\ heatLayer.layers = 1
  /\ heatLayer.stale

(***************************************************************************)
(* Page from its first render on; the variables of MapView hold the state  *)
(* of its first render until Page shows it.                                *)
(***************************************************************************)
InitPage ==
  /\ NODES = SeedNodes
  /\ AREAS = SeedAreas
  /\ page = PageInitial
  /\ localStorage = [k \in StorageKeySet |-> Absent]
  /\ quotaFull = FALSE
  /\ writeThrew = {}
  /\ storedAtMount = [k \in StorageKeySet |-> Absent]
  /\ FirstRender

NextPage ==
  \/ ImportResolves
  \/ ImportRejects
  \/ PageUnmounts
  \/ InMap(MountEffects)
  \/ InMap(FlushEffects)
  \/ \E r \in RiskSet : InMap(ToggleRisk(r))
  \/ InMap(MapContextMenu(InsidePoint))
  \/ InMap(AddCheckpointItem(NULL, NULL))

SpecPage == InitPage /\ [][NextPage]_vars

\* C19: the page starts in the loading view and is always in one of loading,
\* error and map; it enters map only by the import resolving while mounted
\* and error only by the import rejecting while mounted; it never comes back
\* to loading; and once unmounted, no step changes Comp, err or anything of
\* MapView.
PageViewsFollowImport ==
  /\ View(page) = "loading"
  /\ [](View(page) \in {"loading", "error", "map"})
  /\ [][/\ (View(page) # "map" /\ View(page') = "map") => (page.alive /\ ImportResolves)
        /\ (View(page) # "error" /\ View(page') = "error") => (page.alive /\ ImportRejects)
        /\ View(page) # "loading" => View(page') # "loading"
        /\ ~page.alive => (page'.Comp = page.Comp /\ page'.err = page.err /\ UNCHANGED mapVars)
       ]_vars

\* The import settled after the page had unmounted, and the view is still
\* the loading one
SettledAfterUnmount ==
  /\ ~page.alive
  /\ page.import = "settled"
  /\ View(page) = "loading"

(***************************************************************************)
(* The viewport: fits, and the operations between them.                    *)
(***************************************************************************)
NextView ==
  \/ MountEffects
  \/ FlushEffects
  \/ UserPans
  \/ \E n \in 1..2 : FitToDataButton(n)
  \/ \E q \in {<<>>, <<"z">>} : q # query /\ SetQuery(q)
  \/ ToggleShowPolygons
  \/ MapContextMenu(InsidePoint)
  \/ AddCheckpointItem(NULL, NULL)
  \/ ToggleCluster
  \/ SetBasemap("hillshade")
  \/ ToggleAddNoteMode
  \/ ToggleDrawMode
  \/ drawMode /\ MapClick(InsidePoint, NULL)

SpecView == Init /\ [][NextView]_vars

\* C20: a viewport the user has moved is put back on the data only by a step
\* that presses Fit to data or changes the displayed nodes or the areas
\* (shown or hidden, more or fewer);
\* opening or closing the menu, toggling clustering, switching basemap,
\* toggling add-note mode and adding a vertex leave it where it is.
RefitOnlyOnFitOrDataChange ==
  [][(fitted.panned /\ ~fitted'.panned) =>
       \/ fitKey' # fitKey
       \/ Displayed' # Displayed
       \/ showPolygons' # showPolygons
       \/ AllAreas(AREAS, userAreas)' # AllAreas(AREAS, userAreas)]_vars

(***************************************************************************)
(* Mounting over a stored text that does not parse.                        *)
(***************************************************************************)
NextLoad ==
  \/ MountEffects
  \/ RerenderAfterLoad
  \/ FlushEffects
  \/ Remount
  \/ \E k \in StorageKeySet : StoredTextCorrupted(k)
  \/ MapContextMenu(InsidePoint)
  \/ AddNoteItem(<<"n">>)
  \/ AddDangerFlagItem(NULL, NULL)

SpecLoad == Init /\ [][NextLoad]_vars

\* C21: when a mount completes over a storage in which one key held a text
\* that does not parse, every collection whose key held a valid text equals
\* the value that was stored, in memory and under its key.
MalformedKeySparesOthers ==
  [][MountCompletes =>
       \A bad \in StorageKeySet :
         (/\ ParseThrows(storedAtMount'[bad])
          /\ \A k \in StorageKeySet \ {bad} : ~ParseThrows(storedAtMount'[k]))
         => \A k \in StorageKeySet \ {bad} :
              storedAtMount'[k].kind = "json" =>
                /\ CollectionOf(k, userAreas', userNodes', notes', flagIds')
                     = parse(storedAtMount'[k])
                /\ localStorage'[k] = storedAtMount'[k]]_vars

(***************************************************************************)
(* Tile hosts and the img-src directive.  A host is the sequence of its    *)
(* labels.                                                                 *)
(***************************************************************************)
Basemaps == {"osm", "topo", "hillshade", "satellite"}

\* The values Leaflet puts for {s} in a tile url
Subdomains == {"a", "b", "c"}

\* The hosts of the urls of the TileLayers rendered for basemap b
TileHosts(b) ==
  CASE b = "osm"       -> {<<sub, "tile", "openstreetmap", "org">> : sub \in Subdomains}
    [] b = "topo"      -> {<<sub, "tile", "opentopomap", "org">> : sub \in Subdomains}
    [] b = "hillshade" -> {<<sub, "basemaps", "cartocdn", "com">> : sub \in Subdomains}
                            \cup {<<"services", "arcgisonline", "com">>}
    [] b = "satellite" -> {<<"server", "arcgisonline", "com">>}
                            \cup {<<sub, "basemaps", "cartocdn", "com">> : sub \in Subdomains}

\* The host sources of img-src, all of scheme https: 'self', data: and blob:
\* match no url of another host
ImgSrcHosts == {<<"*", "tile", "openstreetmap", "org">>}

\* Matching of a host source: a leading * stands for one or more labels
HostMatches(pattern, host) ==
  IF pattern[1] = "*"
    THEN /\ Len(host) >= Len(pattern)
         /\ SubSeq(host, Len(host) - Len(pattern) + 2, Len(host)) = Tail(pattern)
    ELSE pattern = host

ImgSrcAllows(host) == \E pattern \in ImgSrcHosts : HostMatches(pattern, host)

NextTiles ==
  \/ MountEffects
  \/ \E b \in Basemaps : b # basemap /\ SetBasemap(b)
  \/ SetHillOpacity(30)
  \/ ToggleCluster
  \/ ToggleShowPolygons
  \/ \E r \in RiskSet : ToggleRisk(r)

SpecTiles == Init /\ [][NextTiles]_vars

\* C22: every host the selected basemap loads its tiles from is allowed by
\* the img-src directive, in every reachable state.
TileHostsAllowedByImgSrc == \A host \in TileHosts(basemap) : ImgSrcAllows(host)

====
